---- MODULE Spec2Model ----
(***************************************************************************)
(* Model of mne/time_frequency/psd.py: compute_raw_psd, _compute_psd and   *)
(* compute_epochs_psd, together with the parallel dispatcher they obtain   *)
(* from parallel_func and the figure they open around the dispatch.        *)
(*                                                                         *)
(* A channel's signal is represented by what the single-segment estimator  *)
(* (pylab.psd) makes of it: the power vector and the frequency vector it   *)
(* yields, and whether it raises on it.  Numbers are integers.             *)
(* Sequences are 1-based: Python's out[0] is out[1] here.                  *)
(*                                                                         *)
(* Spec     : a whole call of compute_raw_psd (proj=False) or of           *)
(*            compute_epochs_psd, with the units run by 1..MaxJobs workers.*)
(* SpecProj : lines 49-60 of compute_raw_psd with proj requested, on       *)
(*            numeric matrices.                                            *)
(* SpecMask : the masking of lines 73-80 and of _compute_psd, on arbitrary *)
(*            frequency vectors.                                           *)
(* The Raw container's time indexing (raw.time_as_index, the column slice) *)
(* is outside this file and is not modelled.                               *)
(***************************************************************************)
EXTENDS Integers, Sequences, FiniteSets, TLC

\* ------------------------------------------------------------------ bounds
NChan == 2
MaxPicks == 1
MaxEpochs == 2
MaxJobs == 2
MaxFreq == 1
NBins == 3
MaxVal == 1

\* ---------------------------------------------------------------- encoding
\* picks=None is encoded as <<0>>, which is no valid selection (channels are
\* numbered from 1).
None == <<0>>

\* A call that raised, or a unit that raised, has the empty tuple as value; a
\* successful one has the pair (power, freqs), as Python's out[i] is.
Raise == <<>>

Raised(r) == Len(r) = 0

\* A signal whose spectrum has NBins bins: power 10 * amp + j at bin j, on
\* the frequency grid off, off + 1, ...
Sig(amp, off, bad) ==
    [ pxx |-> [j \in 1..NBins |-> 10 * amp + j],
      freqs |-> [j \in 1..NBins |-> off + (j - 1)],
      bad |-> bad ]

\* The signals a channel row can hold: two that the estimator accepts, on
\* different frequency grids, and one on which it raises.
Signals == { Sig(1, 0, FALSE), Sig(2, 1, FALSE), Sig(3, 0, TRUE) }

PickChoices ==
    {None} \cup UNION { [1..n -> 1..NChan] : n \in 0..MaxPicks }

\* Entries of the projection matrix, values of the numeric signal, and the
\* sample indices of the numeric signal (the product acts column by column,
\* so one sample per channel is kept).
ProjCoefs == {0, 1}
SigVals == 0..MaxVal
SampleIdx == {1}

\* Figures open before the call (one, owned by the caller).
InitialFigs == {1}

VARIABLES
    fn,        \* "raw": compute_raw_psd, "epochs": compute_epochs_psd; "proj", "mask": parts of them
    raw,       \* compute_raw_psd: the rows of the recording (one signal per channel)
    picks,     \* the channel selection, or None
    fmin,
    fmax,
    n_jobs,    \* requested worker count; after parallel_func, the effective one
    plot,      \* compute_raw_psd's plot flag
    pc,        \* position of the calling thread
    args,      \* the argument of each unit submitted so far, in submission order
    ust,       \* per unit: "running", "done" or "failed"
    out,       \* per unit: the dispatcher's result slot
    openFigs,  \* numbers of the open figures
    fig,       \* number of the figure the call created (0: none yet)
    figLines,  \* units whose lines were drawn on the caller's figure fig
    result,    \* the value returned to the caller, Raise while there is none
    proj,      \* the projection matrix (full channel count, square)
    sig,       \* numeric signal matrix of the recording
    data       \* numeric data handed to the estimator after lines 49-60

inputs == <<fn, raw, picks, fmin, fmax, plot>>
numeric == <<proj, sig, data>>
vars == <<fn, raw, picks, fmin, fmax, n_jobs, plot, pc, args, ust,
          out, openFigs, fig, figLines, result, proj, sig, data>>

\* --------------------------------------------------------- pure operators

Range(s) == { s[i] : i \in 1..Len(s) }

\* raw[picks, start:stop+1] / raw[:, start:stop+1] and data[picks]: the rows
\* of m the selection names, in the selection's order (duplicates kept).
Select(m, sel) ==
    IF sel = None THEN m ELSE [i \in 1..Len(sel) |-> m[sel[i]]]

\* pylab.psd(d, Fs=Fs, NFFT=NFFT): (Pxx, freqs), or raises.
psd(d) ==
    IF d.bad THEN Raise ELSE << d.pxx, d.freqs >>

\* Mutant of Mask: the upper end of the range excluded.
MaskExclusiveUpper(freqs, lo, hi) ==
    [j \in 1..Len(freqs) |-> (freqs[j] >= lo) /\ (freqs[j] < hi)]

\* Mutant of Mask: the two comparisons joined by "or".
MaskEitherBound(freqs, lo, hi) ==
    [j \in 1..Len(freqs) |-> (freqs[j] >= lo) \/ (freqs[j] <= hi)]

\* mask = (freqs >= fmin) & (freqs <= fmax)
Mask(freqs, lo, hi) ==
    [j \in 1..Len(freqs) |-> (freqs[j] >= lo) /\ (freqs[j] <= hi)]

\* v[mask]: boolean indexing of a vector.
RECURSIVE BoolIndex(_, _)
BoolIndex(v, mask) ==
    IF Len(mask) = 0 THEN <<>>
    ELSE LET n == Len(mask)
             front == BoolIndex(SubSeq(v, 1, n - 1), SubSeq(mask, 1, n - 1))
         IN IF mask[n] THEN Append(front, v[n]) ELSE front

\* Mutant of MaskColumns: the power is returned unmasked.
MaskColumnsNone(m, mask) == m

\* psd[:, mask]
MaskColumns(m, mask) == [i \in 1..Len(m) |-> BoolIndex(m[i], mask)]

\* Mutant of ZipFirst: the first components in reverse order.
ZipFirstReversed(o) == [i \in 1..Len(o) |-> o[Len(o) + 1 - i][1]]

\* zip(*out)[0]: the first components, in out's order.
ZipFirst(o) == [i \in 1..Len(o) |-> o[i][1]]

\* zip(*out)[1]
ZipSecond(o) == [i \in 1..Len(o) |-> o[i][2]]

\* np.array(rows) gives a rectangular array only if all rows have one shape.
SameShape(rows) ==
    \A i, j \in 1..Len(rows) : Len(rows[i]) = Len(rows[j])

\* np.array(psds) for per-epoch matrices: rectangular only if every epoch's
\* matrix has the same number of rows and of columns.
Stackable(psds) ==
    \A i, j \in 1..Len(psds) :
        /\ Len(psds[i]) = Len(psds[j])
        /\ \A r \in 1..Len(psds[i]) : Len(psds[i][r]) = Len(psds[j][r])

\* Mutant of raw_return: the mask is derived from the last channel's
\* frequency vector (freqs = out[-1][1]).
raw_return_last(o, lo, hi) ==
    IF Len(o) = 0 THEN Raise
    ELSE IF ~SameShape(ZipFirst(o)) THEN Raise
    ELSE LET freqs == o[Len(o)][2]
             mask == Mask(freqs, lo, hi)
         IN << MaskColumns(ZipFirst(o), mask), BoolIndex(freqs, mask) >>

\* Lines 73-80: freqs = out[0][1]; psd = np.array(zip(*out)[0]); mask; return.
\* out[0] of an empty list raises; a ragged psd cannot be indexed [:, mask].
raw_return(o, lo, hi) ==
    IF Len(o) = 0 THEN Raise
    ELSE IF ~SameShape(ZipFirst(o)) THEN Raise
    ELSE LET freqs == o[1][2]
             mask == Mask(freqs, lo, hi)
         IN << MaskColumns(ZipFirst(o), mask), BoolIndex(freqs, mask) >>

\* Mutant of _compute_psd: channels whose estimation raises are skipped.
_compute_psd_skip_failed(d, lo, hi) ==
    LET good == SelectSeq(d, LAMBDA x : ~Raised(psd(x)))
        o == [i \in 1..Len(good) |-> psd(good[i])]
    IN IF Len(o) = 0 THEN Raise
       ELSE LET freqs == o[1][2]
                mask == Mask(freqs, lo, hi)
            IN << MaskColumns(ZipFirst(o), mask), BoolIndex(freqs, mask) >>

\* _compute_psd(data, fmin, fmax, Fs, n_fft, psd): the per-epoch unit.  The
\* list comprehension raises as soon as one channel's estimation raises.
_compute_psd(d, lo, hi) ==
    LET o == [i \in 1..Len(d) |-> psd(d[i])]
    IN IF \E i \in 1..Len(d) : Raised(o[i]) THEN Raise
       ELSE IF Len(o) = 0 THEN Raise
       ELSE IF ~SameShape(ZipFirst(o)) THEN Raise
       ELSE LET freqs == o[1][2]
                mask == Mask(freqs, lo, hi)
            IN << MaskColumns(ZipFirst(o), mask), BoolIndex(freqs, mask) >>

\* Lines 142-144: psds, freqs = zip(*out); return np.array(psds), freqs[0].
\* Unpacking zip(*[]) raises; epochs whose masked widths differ do not stack.
epochs_return(o) ==
    IF Len(o) = 0 THEN Raise
    ELSE LET psds == ZipFirst(o)
             freqs == ZipSecond(o)
         IN IF ~Stackable(psds) THEN Raise ELSE << psds, freqs[1] >>

\* Channel metadata of the epochs (epochs.info): the first two channels are
\* EEG, any further one is a stimulus channel; no channel is marked bad.
info ==
    [ ch_type |-> [c \in 1..NChan |-> IF c <= 2 THEN "eeg" ELSE "stim"],
      bads |-> {} ]

\* pick_types(info, meg=True, eeg=True, exclude='bads'): the MEG and EEG
\* channels that are not bad, in channel order.
pick_types(inf) ==
    SelectSeq([c \in 1..NChan |-> c],
              LAMBDA c : inf.ch_type[c] \in {"meg", "eeg"} /\ c \notin inf.bads)

\* The function a dispatched unit runs: pl.psd on a channel row in
\* compute_raw_psd (line 70), _compute_psd on an epoch in compute_epochs_psd
\* (line 139).
my_psd(f, a, lo, hi) ==
    IF f = "raw" THEN psd(a) ELSE _compute_psd(a, lo, hi)

\* pylab.psd draws the spectrum on the current figure before it returns:
\* whether a unit drew anything.  A unit of compute_epochs_psd draws its first
\* channel unless that one raises.
Draws(f, a) ==
    IF f = "raw" THEN ~a.bad ELSE Len(a) > 0 /\ ~a[1].bad

\* The rows compute_raw_psd iterates over (lines 49-53, proj=False).
RawData == Select(raw, picks)

Running == { i \in 1..Len(ust) : ust[i] = "running" }
Failed == { i \in 1..Len(ust) : ust[i] = "failed" }

\* Mutant of ResultSlot: results are stored in completion order.
ResultSlotByCompletion(i) ==
    Cardinality({ j \in 1..Len(ust) : ust[j] \in {"done", "failed"} }) + 1

\* The slot of the dispatcher's result list a finished unit's value goes to.
ResultSlot(i) == i

\* pl.figure(): a new figure numbered after the highest open one.
NewFig(figs) ==
    IF figs = {} THEN 1
    ELSE (CHOOSE n \in figs : \A m \in figs : m <= n) + 1

\* -------------------------------------------------------------- actions

\* compute_raw_psd lines 49-69 and compute_epochs_psd lines 129-138: resolve
\* the selection, obtain the dispatcher (which falls back to one worker when
\* the parallel backend is unavailable) and open the figure.
Call ==
    /\ pc = "call"
    /\ fn \in {"raw", "epochs"}
    /\ picks' = IF fn = "epochs" /\ picks = None THEN pick_types(info) ELSE picks
    /\ n_jobs' \in {n_jobs, 1}
    /\ fig' = NewFig(openFigs)
    /\ openFigs' = openFigs \cup {NewFig(openFigs)}
    /\ pc' = "dispatch"
    /\ UNCHANGED <<fn, raw, fmin, fmax, plot, args, ust, out,
                   figLines, result, numeric>>

\* The dispatcher takes the next item of the generator and starts its unit,
\* when a worker is free and no unit has failed.
Submit ==
    /\ pc = "dispatch"
    /\ Failed = {}
    /\ Cardinality(Running) < n_jobs
    /\ \E a \in (IF fn = "raw"
                 THEN (IF Len(args) < Len(RawData) THEN {RawData[Len(args) + 1]} ELSE {})
                 ELSE (IF Len(args) < MaxEpochs
                       THEN { Select(ep, picks) : ep \in [1..NChan -> Signals] }
                       ELSE {})) :
          /\ args' = Append(args, a)
          /\ ust' = Append(ust, "running")
          /\ out' = Append(out, Raise)
    /\ UNCHANGED <<inputs, n_jobs, pc, openFigs, fig,
                   figLines, result, numeric>>

\* A running unit completes.  With one worker the unit runs on the calling
\* thread and its drawing lands on the caller's figure; the workers of a pool
\* are processes and draw on their own copies.
Finish(i) ==
    /\ pc = "dispatch"
    /\ i \in Running
    /\ LET r == my_psd(fn, args[i], fmin, fmax)
       IN /\ out' = [out EXCEPT ![ResultSlot(i)] = r]
          /\ ust' = [ust EXCEPT ![i] = IF Raised(r) THEN "failed" ELSE "done"]
    /\ figLines' = IF n_jobs = 1 /\ Draws(fn, args[i])
                   THEN figLines \cup {i} ELSE figLines
    /\ UNCHANGED <<inputs, n_jobs, pc, args, openFigs, fig,
                   result, numeric>>

\* A unit raised and no unit is outstanding: the dispatcher re-raises in
\* the caller, which has no handler; lines 71-72 / 141 are not reached.
Propagate ==
    /\ pc = "dispatch"
    /\ Failed # {}
    /\ Running = {}
    /\ pc' = "raised"
    /\ UNCHANGED <<inputs, n_jobs, args, ust, out, openFigs, fig,
                   figLines, result, numeric>>

\* The generator has ended (the rows of data are used up; the epoch
\* collection yields no further epoch) and all units completed:
\* compute_raw_psd lines 71-80, compute_epochs_psd lines 141-144.
Return ==
    /\ pc = "dispatch"
    /\ fn = "raw" => Len(args) = Len(RawData)
    /\ Running = {}
    /\ Failed = {}
    /\ LET close == fn = "epochs" \/ ~plot
           r == IF fn = "raw" THEN raw_return(out, fmin, fmax)
                ELSE epochs_return(out)
       IN /\ openFigs' = IF close THEN openFigs \ {fig} ELSE openFigs
          /\ figLines' = IF close THEN {} ELSE figLines
          /\ result' = r
          /\ pc' = IF Raised(r) THEN "raised" ELSE "done"
    /\ UNCHANGED <<inputs, n_jobs, args, ust, out, fig, numeric>>

Init ==
    /\ fn \in {"raw", "epochs"}
    /\ raw \in (IF fn = "raw" THEN [1..NChan -> Signals] ELSE {<<>>})
    /\ picks \in PickChoices
    /\ fmin \in 0..MaxFreq
    /\ fmax \in 0..MaxFreq
    /\ n_jobs \in 1..MaxJobs
    /\ plot \in (IF fn = "raw" THEN BOOLEAN ELSE {FALSE})
    /\ pc = "call"
    /\ args = <<>>
    /\ ust = <<>>
    /\ out = <<>>
    /\ openFigs = InitialFigs
    /\ fig = 0
    /\ figLines = {}
    /\ result = Raise
    /\ proj = <<>>
    /\ sig = <<>>
    /\ data = <<>>

Next ==
    \/ Call
    \/ Submit
    \/ \E i \in 1..Len(ust) : Finish(i)
    \/ Propagate
    \/ Return

Spec == Init /\ [][Next]_vars

\* ------------------------------------------- projection (lines 49-60)

RECURSIVE SumTo(_, _)
SumTo(f, n) == IF n = 0 THEN 0 ELSE f[n] + SumTo(f, n - 1)

\* np.dot(A, B) for conformable matrices given as sequences of rows.
dot(A, B) ==
    [i \in 1..Len(A) |->
        [t \in SampleIdx |->
            SumTo([k \in 1..Len(B) |-> A[i][k] * B[k][t]], Len(B))]]

\* Mutant of RestrictProj: the columns are not selected by picks
\* (proj[picks][:, :len(picks)]).
RestrictProjRowsOnly(P, sel) ==
    [i \in 1..Len(sel) |-> [j \in 1..Len(sel) |-> P[sel[i]][j]]]

\* proj[picks][:, picks]
RestrictProj(P, sel) ==
    [i \in 1..Len(sel) |-> [j \in 1..Len(sel) |-> P[sel[i]][sel[j]]]]

\* Lines 49-53: data, times = raw[picks, start:(stop + 1)], or raw[:, ...].
Slice ==
    /\ pc = "call"
    /\ fn = "proj"
    /\ data' = Select(sig, picks)
    /\ pc' = "sliced"
    /\ UNCHANGED <<inputs, n_jobs, args, ust, out, openFigs, fig,
                   figLines, result, proj, sig>>

\* Lines 55-60 with proj requested: data = np.dot(proj[picks][:, picks], data),
\* or np.dot(proj, data) without a selection.
Project ==
    /\ pc = "sliced"
    /\ data' = IF picks # None THEN dot(RestrictProj(proj, picks), data)
               ELSE dot(proj, data)
    /\ pc' = "projected"
    /\ UNCHANGED <<inputs, n_jobs, args, ust, out, openFigs, fig,
                   figLines, result, proj, sig>>

InitProj ==
    /\ fn = "proj"
    /\ raw = <<>>
    /\ picks \in PickChoices
    /\ fmin = 0
    /\ fmax = 0
    /\ n_jobs = 1
    /\ plot = FALSE
    /\ pc = "call"
    /\ args = <<>>
    /\ ust = <<>>
    /\ out = <<>>
    /\ openFigs = InitialFigs
    /\ fig = 0
    /\ figLines = {}
    /\ result = Raise
    /\ proj \in [1..NChan -> [1..NChan -> ProjCoefs]]
    /\ sig \in [1..NChan -> [SampleIdx -> SigVals]]
    /\ data = <<>>

NextProj ==
    \/ Slice
    \/ Project

SpecProj == InitProj /\ [][NextProj]_vars

\* ------------------------------- masking alone (lines 73-80 and 83-90)

\* Frequency vectors of NBins entries, in any order and with repetitions.
FreqVectors == [1..NBins -> 0..MaxFreq + 1]

\* The channels of a masking run: channel i has power 10 * i + j at bin j;
\* the first has frequency vector f, every other one f shifted by one.
MaskChannels(n, f) ==
    [i \in 1..n |->
        [ pxx |-> [j \in 1..NBins |-> 10 * i + j],
          freqs |-> IF i = 1 THEN f ELSE [j \in 1..NBins |-> f[j] + 1],
          bad |-> FALSE ]]

\* compute_raw_psd lines 73-80 on the results of the channels' estimations.
MaskRaw ==
    /\ pc = "call"
    /\ fn = "mask"
    /\ out' = [i \in 1..Len(args) |-> psd(args[i])]
    /\ result' = raw_return([i \in 1..Len(args) |-> psd(args[i])], fmin, fmax)
    /\ pc' = "raw_masked"
    /\ UNCHANGED <<inputs, n_jobs, args, ust, openFigs, fig, figLines,
                   numeric>>

\* _compute_psd (lines 83-90) on the channels.
MaskUnit ==
    /\ pc = "call"
    /\ fn = "mask"
    /\ result' = _compute_psd(args, fmin, fmax)
    /\ pc' = "unit_masked"
    /\ UNCHANGED <<inputs, n_jobs, args, ust, out, openFigs, fig, figLines,
                   numeric>>

InitMask ==
    /\ fn = "mask"
    /\ raw = <<>>
    /\ picks = None
    /\ fmin \in 0..MaxFreq
    /\ fmax \in 0..MaxFreq
    /\ n_jobs = 1
    /\ plot = FALSE
    /\ pc = "call"
    /\ args \in { MaskChannels(n, f) : n \in 1..NChan, f \in FreqVectors }
    /\ ust = <<>>
    /\ out = <<>>
    /\ openFigs = InitialFigs
    /\ fig = 0
    /\ figLines = {}
    /\ result = Raise
    /\ proj = <<>>
    /\ sig = <<>>
    /\ data = <<>>

NextMask ==
    \/ MaskRaw
    \/ MaskUnit

SpecMask == InitMask /\ [][NextMask]_vars

\* ------------------------------------------------------------ properties

Done == pc = "done"
Terminal == pc \in {"done", "raised"}

\* The i-th selected channel of the recording.
Chan(i) == IF picks = None THEN raw[i] ELSE raw[picks[i]]

\* Number of selected channels.
NSel == IF picks = None THEN NChan ELSE Len(picks)

\* The estimation of unit argument a raises.
UnitBad(a) ==
    IF fn = "raw" THEN a.bad ELSE \E c \in 1..Len(a) : a[c].bad

\* Indices of f inside [fmin, fmax], and the k-th smallest of a set of indices.
Kept(f) == { j \in 1..Len(f) : fmin <= f[j] /\ f[j] <= fmax }
Kth(S, k) == CHOOSE j \in S : Cardinality({ i \in S : i < j }) = k - 1

\* m holds exactly the entries of v at the indices where f is inside
\* [fmin, fmax], in their original order.
IsMasked(v, f, m) ==
    /\ Len(m) = Cardinality(Kept(f))
    /\ \A k \in 1..Len(m) : m[k] = v[Kth(Kept(f), k)]

\* The canonical (first unit's, first channel's) unmasked frequency vector.
Canonical == IF fn = "raw" THEN psd(args[1])[2] ELSE psd(args[1][1])[2]

\* C1: output order is input order.  When compute_raw_psd returns, row i of
\* the power matrix is the (masked) power the estimator computes for the i-th
\* selected channel; when compute_epochs_psd returns, slice i of the power
\* tensor is the power matrix of the i-th epoch yielded, whatever the number
\* of workers and the order in which units completed.
C1_OrderPreserved ==
    Done =>
        /\ Len(result[1]) = Len(args)
        /\ fn = "raw" =>
              /\ Len(args) = NSel
              /\ \A i \in 1..NSel :
                    result[1][i] =
                        BoolIndex(psd(Chan(i))[1],
                                  Mask(psd(Chan(1))[2], fmin, fmax))
        /\ fn = "epochs" =>
              \A i \in 1..Len(args) :
                  /\ Len(result[1][i]) = Len(args[i])
                  /\ \A c \in 1..Len(args[i]) :
                        result[1][i][c] =
                            BoolIndex(psd(args[i][c])[1],
                                      Mask(psd(args[i][1])[2], fmin, fmax))

\* C1 witness: a pool of several workers returned for at least two units
\* whose powers differ.
C1_Witness ==
    /\ Done
    /\ n_jobs > 1
    /\ Len(args) >= 2
    /\ args[1] # args[2]
    /\ Len(result[2]) > 0

\* C2: no partial success.  If the estimation of a dispatched unit raises,
\* the call never returns: it ends raised and hands back no result, not even
\* the results of the units that succeeded.
C2_NoPartialSuccess ==
    ((\E i \in 1..Len(args) : UnitBad(args[i])) \/ Failed # {}) =>
        /\ pc # "done"
        /\ result = Raise

\* C2 witness: the first unit succeeded, the second raised, and the call
\* ended raised.
C2_Witness ==
    /\ pc = "raised"
    /\ Len(ust) >= 2
    /\ ust[1] = "done"
    /\ ust[2] = "failed"
    /\ result = Raise

\* C3: mask correctness.  For every frequency vector f of the first channel
\* and every bounds, the frequency vector compute_raw_psd returns, and the
\* one _compute_psd returns, holds exactly the entries of f inside
\* [fmin, fmax], in their original order, and every power row holds exactly
\* the columns at the retained frequencies (so its length is the number of
\* retained frequencies).
C3_MaskCorrect ==
    (\/ pc \in {"raw_masked", "unit_masked"}
     \/ (Done /\ fn = "raw")) =>
        LET f == args[1].freqs
        IN /\ IsMasked(f, f, result[2])
           /\ Len(result[1]) = Len(args)
           /\ \A i \in 1..Len(args) :
                 IsMasked(args[i].pxx, f, result[1][i])

\* C3 witness: _compute_psd returned for two channels and a frequency vector
\* that is not sorted, with some frequencies retained and some dropped.
C3_Witness ==
    /\ pc = "unit_masked"
    /\ Len(args) = 2
    /\ \E j \in 1..NBins - 1 : args[1].freqs[j] > args[1].freqs[j + 1]
    /\ Len(result[2]) > 1
    /\ Len(result[2]) < NBins

\* The outcome of running the units one after the other on the calling
\* thread, stopping at the first that raises.
RECURSIVE SeqOut(_, _)
SeqOut(as, k) ==
    IF k = 0 THEN <<>>
    ELSE Append(SeqOut(as, k - 1), my_psd(fn, as[k], fmin, fmax))

Sequential(as) ==
    IF \E i \in 1..Len(as) : Raised(my_psd(fn, as[i], fmin, fmax)) THEN Raise
    ELSE IF fn = "raw" THEN raw_return(SeqOut(as, Len(as)), fmin, fmax)
    ELSE epochs_return(SeqOut(as, Len(as)))

\* C4: the worker count does not affect the output.  However many workers
\* ran the units, a call that has ended has the outcome of the sequential
\* evaluation of the same units: the same power and frequency arrays when it
\* returned, and no result when it raised.
C4_WorkerCountIrrelevant ==
    Terminal => result = Sequential(args)

\* C4 witness: a pool of several workers returned the result of at least two
\* different units.
C4_Witness ==
    /\ Done
    /\ n_jobs > 1
    /\ Len(args) >= 2
    /\ args[1] # args[2]

\* C5: once the call has ended (returned or raised), the open figures are
\* those that were open before the call.
C5_FiguresRestored ==
    Terminal => openFigs = InitialFigs

\* C6: no dispatched unit draws on the caller's figure.
C6_UnitsNeverTouchFigure ==
    figLines = {}

\* Channels of D outside the selection set to zero.
ZeroUnselected(D, sel) ==
    [c \in 1..Len(D) |->
        IF c \in Range(sel) THEN D[c] ELSE [t \in SampleIdx |-> 0]]

NoDup(sel) == \A i, j \in 1..Len(sel) : sel[i] = sel[j] => i = j

C10_FirstIsCanonical ==
    Done =>
        /\ fn = "raw" =>
              LET mask == Mask(psd(args[1])[2], fmin, fmax)
              IN /\ result[2] = BoolIndex(psd(args[1])[2], mask)
                 /\ result[1] = MaskColumns([i \in 1..Len(args) |-> psd(args[i])[1]], mask)
        /\ fn = "epochs" =>
              /\ result[2] = BoolIndex(psd(args[1][1])[2],
                                       Mask(psd(args[1][1])[2], fmin, fmax))
              /\ \A i \in 1..Len(args) :
                    result[1][i] =
                        MaskColumns([c \in 1..Len(args[i]) |-> psd(args[i][c])[1]],
                                    Mask(psd(args[i][1])[2], fmin, fmax))

\* C10 witness: compute_raw_psd returned although the second channel's
\* frequency vector differs from the first's, so that the returned
\* frequencies do not describe the second row.
C10_Witness ==
    /\ Done
    /\ fn = "raw"
    /\ Len(args) >= 2
    /\ psd(args[2])[2] # psd(args[1])[2]
    /\ Len(result[2]) > 0
    /\ result[2] # BoolIndex(psd(args[2])[2], Mask(psd(args[1])[2], fmin, fmax))

====
